---- MODULE Spec2Model ----
(* A model of diagram_generator.py: GremlinParser._parse, the text            *)
(* substitution of SvgTemplate.replace_fields, the value sanitizer, the PDF   *)
(* output step save_pdf and the control flow of main.                         *)
(* Text is a sequence of one-character strings.                               *)
EXTENDS Integers, Sequences, FiniteSets, TLC

VARIABLES
    pc,               \* position of the program
    argc,             \* len(sys.argv)
    xml_state,        \* "ok", "missing" or "malformed": the input document on disk
    doc,              \* the document's elements in document order
    mappings,         \* the ordered dict built by _parse, or None
    svg_exists,       \* whether the template file can be opened
    template,         \* the template file's text
    xml_filename,     \* str(xml_file)
    current_date,     \* datetime.now().strftime("%d/%m/%Y")
    raw_data,         \* SvgTemplate.raw_data
    origin,           \* for each character of raw_data, the template position it descends from
    sorted_keys,      \* replace_fields' sorted_keys
    key_index,        \* the loop position in sorted_keys
    replacements_made,
    value,            \* the argument of _sanitize_string_for_svg
    sanitized,        \* its result
    resanitized,      \* the result of sanitizing the result
    driver,           \* "none", "running" or "quit": the browser process
    quit_called,      \* driver.quit() has been called
    temp_exists,      \* the .temp.svg file exists
    temp_svg_path,    \* save_pdf's temp_svg_path is set
    pending,          \* save_pdf's try block ended in an exception
    history,          \* the set of effects the run has had
    error_seen,       \* a fatal error has been logged
    exit_status       \* the process's exit status, -1 while it runs

vars == <<pc, argc, xml_state, doc, mappings, svg_exists, template, xml_filename,
          current_date, raw_data, origin, sorted_keys, key_index, replacements_made,
          value, sanitized, resanitized, driver, quit_called, temp_exists,
          temp_svg_path, pending, history, error_seen, exit_status>>

parseVars == <<xml_state, doc>>
renderVars == <<raw_data, origin, sorted_keys, key_index, replacements_made>>
inputVars == <<svg_exists, template, xml_filename, current_date>>
sanVars == <<value, sanitized, resanitized>>
pdfVars == <<driver, quit_called, temp_exists, temp_svg_path, pending>>


-----------------------------------------------------------------------------
(* Text helpers                                                               *)

\* the characters str.strip() and the pattern \s treat as whitespace
Whitespace == {" ", "\t", "\n", "\r", "\f"}

RECURSIVE Concat(_)
\* the concatenation of a sequence of texts
Concat(ss) == IF ss = <<>> THEN <<>> ELSE Head(ss) \o Concat(Tail(ss))

\* text[i..] starts with the literal old
StartsWithAt(text, i, old) ==
    /\ i + Len(old) - 1 <= Len(text)
    /\ \A k \in 1..Len(old) : text[i + k - 1] = old[k]

RECURSIVE ReplaceFrom(_, _, _, _)
\* str.replace from position i on: leftmost occurrences, not overlapping
ReplaceFrom(text, i, old, new) ==
    IF i > Len(text) THEN <<>>
    ELSE IF StartsWithAt(text, i, old)
         THEN new \o ReplaceFrom(text, i + Len(old), old, new)
         ELSE <<text[i]>> \o ReplaceFrom(text, i + 1, old, new)

\* str.replace(old, new) for a non-empty old
Replace(text, old, new) == ReplaceFrom(text, 1, old, new)

\* old occurs in text
Contains(text, old) == \E i \in 1..Len(text) : StartsWithAt(text, i, old)

RECURSIVE LStrip(_)
LStrip(s) == IF s # <<>> /\ Head(s) \in Whitespace THEN LStrip(Tail(s)) ELSE s

RECURSIVE RStrip(_)
RStrip(s) ==
    IF s # <<>> /\ s[Len(s)] \in Whitespace THEN RStrip(SubSeq(s, 1, Len(s) - 1)) ELSE s

\* str.strip()
Strip(s) == RStrip(LStrip(s))

\* every text that joins at most n pieces
TextsOf(pieces, n) ==
    { Concat(ps) : ps \in UNION { [1..k -> pieces] : k \in 0..n } }

-----------------------------------------------------------------------------
(* _sanitize_string_for_svg                                                   *)

AMP == <<"&">>
LT == <<"<">>
GT == <<">">>
AMP_ENTITY == <<"&", "a", "m", "p", ";">>
LT_ENTITY == <<"&", "l", "t", ";">>
GT_ENTITY == <<"&", "g", "t", ";">>
QUOT_ENTITY == <<"&", "q", "u", "o", "t", ";">>
APOS_ENTITY == <<"&", "a", "p", "o", "s", ";">>

\* xml.sax.saxutils.unescape with no extra entities: the ampersand last
Unescape(data) ==
    Replace(Replace(Replace(data, LT_ENTITY, LT), GT_ENTITY, GT), AMP_ENTITY, AMP)

\* escape with the ampersand replaced last: the entities it wrote are escaped again
EscapeAmpLast(data) ==
    Replace(Replace(Replace(data, GT, GT_ENTITY), LT, LT_ENTITY), AMP, AMP_ENTITY)

\* xml.sax.saxutils.escape with no extra entities: the ampersand first
Escape(data) ==
    Replace(Replace(Replace(data, AMP, AMP_ENTITY), GT, GT_ENTITY), LT, LT_ENTITY)

\* sanitizing without un-escaping first
SanitizeNoUnescape(value_to_sanitize) == Escape(value_to_sanitize)

SanitizeStringForSvg(value_to_sanitize) == Escape(Unescape(value_to_sanitize))

-----------------------------------------------------------------------------
(* GremlinParser._parse                                                       *)

PIPE == "|"

\* the absent mapping table
None == [is_none |-> TRUE, table |-> <<>>]

Some(table) == [is_none |-> FALSE, table |-> table]

RECURSIVE Join(_)
\* the attribute text whose pipe-separated tokens are toks
Join(toks) ==
    IF Len(toks) = 1 THEN Head(toks) ELSE Head(toks) \o <<PIPE>> \o Join(Tail(toks))

\* element.attrib['description'] of an element that has one
Description(element) == Join(element.tokens)

RECURSIVE SplitFrom(_, _, _)
\* the rest of str.split('|'): cur is the part being read
SplitFrom(s, i, cur) ==
    IF i > Len(s) THEN <<cur>>
    ELSE IF s[i] = PIPE THEN <<cur>> \o SplitFrom(s, i + 1, <<>>)
         ELSE SplitFrom(s, i + 1, Append(cur, s[i]))

\* description.split('|')
Split(s) == SplitFrom(s, 1, <<>>)

\* the position of key in the ordered dict, 0 when absent
IndexOfKey(table, key) ==
    IF \E j \in 1..Len(table) : table[j][1] = key
    THEN CHOOSE j \in 1..Len(table) : table[j][1] = key
    ELSE 0

\* an assignment that keeps the first value of a key already present
PutKeepFirst(table, key, val) ==
    IF IndexOfKey(table, key) = 0 THEN Append(table, <<key, val>>) ELSE table

\* mappings[key] = value: a new key is appended, a known key keeps its place
Put(table, key, val) ==
    IF IndexOfKey(table, key) = 0
    THEN Append(table, <<key, val>>)
    ELSE [table EXCEPT ![IndexOfKey(table, key)] = <<key, val>>]

RECURSIVE ParsePairs(_, _, _)
\* the loop over range(0, len(parts), 2), from (1-based) position i
ParsePairs(table, parts, i) ==
    IF i > Len(parts) THEN table
    ELSE LET key == Strip(parts[i]) IN
         IF key # <<>> /\ i + 1 <= Len(parts)
         THEN ParsePairs(Put(table, key, Strip(parts[i + 1])), parts, i + 2)
         ELSE IF key # <<>>
              THEN ParsePairs(Put(table, key, <<>>), parts, i + 2)
              ELSE ParsePairs(table, parts, i + 2)

\* the body of the loop over root.iter() for one element
ParseElement(table, element) ==
    IF ~element.has_description THEN table
    ELSE LET description == Strip(Description(element)) IN
         IF description = <<>> THEN table
         ELSE ParsePairs(table, Split(description), 1)

RECURSIVE ParseElements(_, _, _)
\* the loop over root.iter(), from element e
ParseElements(table, elements, e) ==
    IF e > Len(elements) THEN table
    ELSE ParseElements(ParseElement(table, elements[e]), elements, e + 1)

\* a parser that returns the table it has, empty, when the document cannot be read
ParseResultNeverNone(state, elements) ==
    IF state = "ok" THEN Some(ParseElements(<<>>, elements, 1)) ELSE Some(<<>>)

\* what _parse returns
ParseResult(state, elements) ==
    IF state = "ok" THEN Some(ParseElements(<<>>, elements, 1)) ELSE None

\* GremlinParser(xml_file): __init__ runs _parse
Parse ==
    /\ pc = "parse"
    /\ mappings' = ParseResult(xml_state, doc)
    /\ error_seen' = (error_seen \/ xml_state # "ok")
    /\ pc' = "parsed"
    /\ UNCHANGED <<argc, parseVars, inputVars, renderVars, sanVars, pdfVars,
                   history, exit_status>>

-----------------------------------------------------------------------------
(* The sanitizer applied to a value, and to its own result                    *)

Sanitize ==
    /\ pc = "sanitize"
    /\ sanitized' = SanitizeStringForSvg(value)
    /\ pc' = "sanitized"
    /\ UNCHANGED <<argc, parseVars, mappings, inputVars, renderVars, value, resanitized,
                   pdfVars, history, error_seen, exit_status>>

Resanitize ==
    /\ pc = "sanitized"
    /\ resanitized' = SanitizeStringForSvg(sanitized)
    /\ pc' = "resanitized"
    /\ UNCHANGED <<argc, parseVars, mappings, inputVars, renderVars, value, sanitized,
                   pdfVars, history, error_seen, exit_status>>

-----------------------------------------------------------------------------
(* Inputs                                                                     *)

\* the most pieces a value is made of
MaxValuePieces == 4

ValuePieces ==
    { AMP, <<"a", "m", "p", ";">>, <<"l", "t", ";">>, <<"g", "t", ";">>,
      LT, GT, <<"\"">>, <<"'">>, <<"q", "u", "o", "t", ";">> }

Values == TextsOf(ValuePieces, MaxValuePieces)

\* the most items (tokens and element boundaries) a document is made of
MaxItems == 5

TokenTexts == { <<>>, <<" ">>, <<"A">>, <<" ", "A", " ">>, <<"B">>, <<"1">>, <<"2">> }

\* an item is a token of the current element's description or the start of the
\* next element
Items ==
    { [brk |-> FALSE, tok |-> t] : t \in TokenTexts } \cup { [brk |-> TRUE, tok |-> <<>>] }

ElementOf(toks) == [has_description |-> toks # <<>>, tokens |-> toks]

RECURSIVE Elements(_, _)
\* the elements a sequence of items describes: an element with no token has no
\* description attribute
Elements(items, cur) ==
    IF items = <<>> THEN <<ElementOf(cur)>>
    ELSE IF Head(items).brk
         THEN <<ElementOf(cur)>> \o Elements(Tail(items), <<>>)
         ELSE Elements(Tail(items), Append(cur, Head(items).tok))

Docs == { Elements(items, <<>>) : items \in UNION { [1..k -> Items] : k \in 0..MaxItems } }

\* the values of the variables a specification does not use
IdleParse == xml_state = "ok" /\ doc = <<>> /\ mappings = None
IdleInputs ==
    svg_exists = TRUE /\ template = <<>> /\ xml_filename = <<>> /\ current_date = <<>>
IdleRender ==
    /\ raw_data = <<>> /\ origin = <<>> /\ sorted_keys = <<>>
    /\ key_index = 0 /\ replacements_made = 0
IdleSanitize == value = <<>> /\ sanitized = <<>> /\ resanitized = <<>>
IdlePdf ==
    /\ driver = "none" /\ quit_called = FALSE /\ temp_exists = FALSE
    /\ temp_svg_path = FALSE /\ pending = FALSE
IdleMain == argc = 3 /\ history = {} /\ error_seen = FALSE /\ exit_status = -1

-----------------------------------------------------------------------------
(* _parse on every bounded document                                           *)

InitParse ==
    /\ pc = "parse"
    /\ xml_state \in {"ok", "missing", "malformed"}
    /\ doc \in Docs
    /\ mappings = None
    /\ IdleInputs /\ IdleRender /\ IdleSanitize /\ IdlePdf /\ IdleMain

NextParse == Parse

SpecParse == InitParse /\ [][NextParse]_vars

-----------------------------------------------------------------------------
(* _sanitize_string_for_svg on every bounded value                            *)

InitSanitize ==
    /\ pc = "sanitize"
    /\ value \in Values
    /\ sanitized = <<>> /\ resanitized = <<>>
    /\ IdleParse /\ IdleInputs /\ IdleRender /\ IdlePdf /\ IdleMain

NextSanitize == Sanitize \/ Resanitize

SpecSanitize == InitSanitize /\ [][NextSanitize]_vars

-----------------------------------------------------------------------------
(* Properties of _parse                                                       *)

\* the places <<element, position>> of the non-empty keys: the odd (1-based)
\* positions of a description's tokens
KeyOccurrences ==
    UNION { { <<e, i>> : i \in { j \in 1..Len(doc[e].tokens) :
                                   j % 2 = 1 /\ Strip(doc[e].tokens[j]) # <<>> } }
            : e \in { x \in 1..Len(doc) : doc[x].has_description } }

OccurrenceKey(o) == Strip(doc[o[1]].tokens[o[2]])

OccurrenceValue(o) ==
    LET toks == doc[o[1]].tokens
    IN  IF o[2] + 1 <= Len(toks) THEN Strip(toks[o[2] + 1]) ELSE <<>>

ComesAfter(o, p) == o[1] > p[1] \/ (o[1] = p[1] /\ o[2] > p[2])

LastOccurrence(key) ==
    CHOOSE o \in KeyOccurrences :
        /\ OccurrenceKey(o) = key
        /\ \A p \in KeyOccurrences : OccurrenceKey(p) = key => (p = o \/ ComesAfter(o, p))

\* C1: for a well-formed document _parse returns a table with exactly one entry
\* per distinct trimmed non-empty token at a key position, whose value is the
\* trimmed following token of the key's last occurrence in document order, or
\* the empty text when that occurrence is a trailing token; an empty key gives
\* no entry.
C1_OneEntryPerKeyLastWins ==
    (pc = "parsed" /\ xml_state = "ok") =>
        /\ ~mappings.is_none
        /\ { mappings.table[j][1] : j \in 1..Len(mappings.table) }
             = { OccurrenceKey(o) : o \in KeyOccurrences }
        /\ Len(mappings.table) = Cardinality({ OccurrenceKey(o) : o \in KeyOccurrences })
        /\ \A j \in 1..Len(mappings.table) :
             mappings.table[j][2] = OccurrenceValue(LastOccurrence(mappings.table[j][1]))

\* "|1|A|1|A": an empty key with a value, a key met twice, a trailing key
C1_Witness ==
    /\ pc = "parsed" /\ xml_state = "ok"
    /\ doc = << ElementOf(<< <<>>, <<"1">>, <<"A">>, <<"1">>, <<"A">> >>) >>
    /\ mappings = Some(<< << <<"A">>, <<>> >> >>)

-----------------------------------------------------------------------------
(* Properties of _sanitize_string_for_svg                                     *)

NoRaw(text, chars) == \A i \in 1..Len(text) : text[i] \notin chars

EveryAmpStarts(text, entities) ==
    \A i \in 1..Len(text) : text[i] = "&" => \E e \in entities : StartsWithAt(text, i, e)

\* the entity form of one of the characters escaped, any other character itself
EntityForm(c, escaped) ==
    IF c \notin escaped THEN <<c>>
    ELSE CASE c = "&" -> AMP_ENTITY
           [] c = "<" -> LT_ENTITY
           [] c = ">" -> GT_ENTITY
           [] c = "\"" -> QUOT_ENTITY
           [] c = "'" -> APOS_ENTITY

EachInEntityForm(text, escaped) ==
    Concat([i \in 1..Len(text) |-> EntityForm(text[i], escaped)])

\* C4 as stated: the five characters &, <, >, " and ' of the un-escaped value
\* appear only in entity form
C4_FiveCharactersEscaped ==
    pc = "sanitized" =>
        /\ sanitized = EachInEntityForm(Unescape(value), {"&", "<", ">", "\"", "'"})
        /\ NoRaw(sanitized, {"<", ">", "\"", "'"})
        /\ EveryAmpStarts(sanitized,
                          {AMP_ENTITY, LT_ENTITY, GT_ENTITY, QUOT_ENTITY, APOS_ENTITY})

\* C4 amended: the three characters &, < and > of the un-escaped value appear
\* only in entity form, every other character (the quotes included) as it is
C4_ThreeCharactersEscaped ==
    pc = "sanitized" =>
        /\ sanitized = EachInEntityForm(Unescape(value), {"&", "<", ">"})
        /\ NoRaw(sanitized, {"<", ">"})
        /\ EveryAmpStarts(sanitized, {AMP_ENTITY, LT_ENTITY, GT_ENTITY})

\* a value with an entity, a raw < and a quote has been sanitized
C4_Witness ==
    /\ pc = "sanitized"
    /\ value = GT_ENTITY \o LT \o <<"\"">>
    /\ sanitized = GT_ENTITY \o LT_ENTITY \o <<"\"">>

\* C5: sanitizing never escapes twice: &amp; stays &amp;, a raw < becomes &lt;,
\* and sanitizing a sanitized value returns it unchanged
C5_SanitizeIdempotent ==
    /\ pc \in {"sanitized", "resanitized"} =>
         /\ value = AMP_ENTITY => sanitized = AMP_ENTITY
         /\ value = LT => sanitized = LT_ENTITY
    /\ pc = "resanitized" => resanitized = sanitized

\* a value holding the entity &amp; and a raw < has been sanitized twice
C5_Witness ==
    /\ pc = "resanitized"
    /\ value = AMP_ENTITY \o LT
    /\ sanitized = AMP_ENTITY \o LT_ENTITY
    /\ resanitized = sanitized

-----------------------------------------------------------------------------
(* SvgTemplate.replace_fields                                                 *)

TEMPLATE_NAME == <<"T", "E", "M", "P", "L", "A", "T", "E", "_", "N", "A", "M", "E">>
CURRENT_DATE == <<"C", "U", "R", "R", "E", "N", "T", "_", "D", "A", "T", "E">>

UPPER == <<"A", "B", "C", "D", "E", "F", "G", "H", "I", "J", "K", "L", "M",
           "N", "O", "P", "Q", "R", "S", "T", "U", "V", "W", "X", "Y", "Z">>
LOWER == <<"a", "b", "c", "d", "e", "f", "g", "h", "i", "j", "k", "l", "m",
           "n", "o", "p", "q", "r", "s", "t", "u", "v", "w", "x", "y", "z">>
DIGITS == {"0", "1", "2", "3", "4", "5", "6", "7", "8", "9"}
OCTAL_DIGITS == {"0", "1", "2", "3", "4", "5", "6", "7"}
BACKSLASH == "\\"

IsLetter(c) == \E k \in 1..Len(UPPER) : c = UPPER[k] \/ c = LOWER[k]

\* the case fold of re.IGNORECASE on ASCII text
Lower(c) ==
    IF \E k \in 1..Len(UPPER) : UPPER[k] = c
    THEN LOWER[CHOOSE k \in 1..Len(UPPER) : UPPER[k] = c]
    ELSE c

\* the last position of character c in s, 0 when absent: s.rfind(c)
LastIndex(s, c) ==
    IF \E i \in 1..Len(s) : s[i] = c
    THEN CHOOSE i \in 1..Len(s) : s[i] = c /\ \A j \in (i + 1)..Len(s) : s[j] # c
    ELSE 0

\* os.path.basename
Basename(path) == SubSeq(path, LastIndex(path, "/") + 1, Len(path))

\* os.path.splitext(name)[0] of a name without directory: the extension starts at
\* the last dot, unless only dots come before it
SplitextRoot(name) ==
    LET dot == LastIndex(name, ".")
    IN  IF dot > 0 /\ \E j \in 1..(dot - 1) : name[j] # "."
        THEN SubSeq(name, 1, dot - 1)
        ELSE name

\* template_name of replace_fields
TemplateNameOf(filename) == SplitextRoot(Basename(filename))

\* text[a..b] is whitespace only
AllSpace(text, a, b) == \A j \in a..b : text[j] \in Whitespace

\* the literal key, case ignored, at position j of text
KeyAt(text, j, key) ==
    /\ j + Len(key) - 1 <= Len(text)
    /\ \A k \in 1..Len(key) : Lower(text[j + k - 1]) = Lower(key[k])

\* the position after the whitespace that starts at j
SkipSpace(text, j) ==
    IF \E k \in j..Len(text) : text[k] \notin Whitespace
    THEN CHOOSE k \in j..Len(text) :
            text[k] \notin Whitespace /\ AllSpace(text, j, k - 1)
    ELSE Len(text) + 1

\* where the key may start in a match of >\s*KEY\s*< that starts at i
KeyStarts(text, i, key) ==
    { j \in (i + 1)..(Len(text) + 1) :
        /\ AllSpace(text, i + 1, j - 1)
        /\ KeyAt(text, j, key)
        /\ SkipSpace(text, j + Len(key)) <= Len(text)
        /\ text[SkipSpace(text, j + Len(key))] = "<" }

\* the pattern without its closing <: the match ends with the key's whitespace
MatchEndNoClose(text, i, key) ==
    IF i <= Len(text) /\ text[i] = ">"
       /\ \E j \in (i + 1)..(Len(text) + 1) : AllSpace(text, i + 1, j - 1) /\ KeyAt(text, j, key)
    THEN LET j == CHOOSE x \in (i + 1)..(Len(text) + 1) :
                     /\ AllSpace(text, i + 1, x - 1) /\ KeyAt(text, x, key)
                     /\ \A y \in (x + 1)..(Len(text) + 1) :
                          ~(AllSpace(text, i + 1, y - 1) /\ KeyAt(text, y, key))
         IN  SkipSpace(text, j + Len(key)) - 1
    ELSE 0

\* the last position of the match of search_pattern that starts at i, 0 when
\* there is none: the first \s* is greedy, so the key starts as late as it can
MatchEnd(text, i, key) ==
    IF i <= Len(text) /\ text[i] = ">" /\ KeyStarts(text, i, key) # {}
    THEN LET j == CHOOSE x \in KeyStarts(text, i, key) :
                     \A y \in KeyStarts(text, i, key) : y <= x
         IN  SkipSpace(text, j + Len(key))
    ELSE 0

\* search_pattern.search(text)
HasMatch(text, key) == \E i \in 1..Len(text) : MatchEnd(text, i, key) > 0

\* a part of a replacement template: a character, or the whole match
Lit(c) == [group |-> FALSE, ch |-> c]
WholeMatch == [group |-> TRUE, ch |-> ""]

\* the replacement taken character for character
LiteralParts(repl) == [k \in 1..Len(repl) |-> Lit(repl[k])]

\* the characters the escapes of a replacement template stand for; the bell,
\* backspace, vertical tab and NUL are named
EscapeChar(c) ==
    CASE c = "n" -> "\n"
      [] c = "t" -> "\t"
      [] c = "r" -> "\r"
      [] c = "f" -> "\f"
      [] c = "a" -> "BEL"
      [] c = "b" -> "BS"
      [] c = "v" -> "VT"
      [] c = BACKSLASH -> BACKSLASH

KnownEscapes == {"n", "t", "r", "f", "a", "b", "v", BACKSLASH}

\* the number of octal digits, at most two, from position i of repl
OctalRun(repl, i) ==
    IF i <= Len(repl) /\ repl[i] \in OCTAL_DIGITS
    THEN IF i + 1 <= Len(repl) /\ repl[i + 1] \in OCTAL_DIGITS THEN 2 ELSE 1
    ELSE 0

RECURSIVE TemplateFrom(_, _)
\* re's parsing of a replacement string from position i, for a pattern with no
\* group: [ok, parts], ok false when re.error is raised
TemplateFrom(repl, i) ==
    IF i > Len(repl) THEN [ok |-> TRUE, parts |-> <<>>]
    ELSE IF repl[i] # BACKSLASH
    THEN LET rest == TemplateFrom(repl, i + 1)
         IN  [ok |-> rest.ok, parts |-> <<Lit(repl[i])>> \o rest.parts]
    ELSE IF i = Len(repl) THEN [ok |-> FALSE, parts |-> <<>>]
    ELSE LET c == repl[i + 1] IN
         IF c = "g"
         THEN IF StartsWithAt(repl, i + 2, <<"<", "0", ">">>)
              THEN LET rest == TemplateFrom(repl, i + 5)
                   IN  [ok |-> rest.ok, parts |-> <<WholeMatch>> \o rest.parts]
              ELSE [ok |-> FALSE, parts |-> <<>>]
         ELSE IF c = "0"
         THEN LET n == OctalRun(repl, i + 2)
                  rest == TemplateFrom(repl, i + 2 + n)
              IN  [ok |-> rest.ok,
                   parts |-> <<Lit(IF n = 0 THEN "NUL" ELSE "OCTAL")>> \o rest.parts]
         ELSE IF c \in DIGITS THEN [ok |-> FALSE, parts |-> <<>>]
         ELSE IF c \in KnownEscapes
         THEN LET rest == TemplateFrom(repl, i + 2)
              IN  [ok |-> rest.ok, parts |-> <<Lit(EscapeChar(c))>> \o rest.parts]
         ELSE IF IsLetter(c) THEN [ok |-> FALSE, parts |-> <<>>]
         ELSE LET rest == TemplateFrom(repl, i + 2)
              IN  [ok |-> rest.ok, parts |-> <<Lit(BACKSLASH), Lit(c)>> \o rest.parts]

\* the replacement string as Pattern.sub reads it
ParseTemplate(repl) == TemplateFrom(repl, 1)

\* the text a parsed replacement stands for at a match
Expand(parts, matched) ==
    Concat([k \in 1..Len(parts) |-> IF parts[k].group THEN matched ELSE <<parts[k].ch>>])

RECURSIVE SubFrom(_, _, _, _)
\* Pattern.sub from position i on: leftmost matches, not overlapping
SubFrom(text, i, key, parts) ==
    IF i > Len(text) THEN <<>>
    ELSE LET e == MatchEnd(text, i, key) IN
         IF e > 0
         THEN Expand(parts, SubSeq(text, i, e)) \o SubFrom(text, e + 1, key, parts)
         ELSE <<text[i]>> \o SubFrom(text, i + 1, key, parts)

RECURSIVE SubOriginFrom(_, _, _, _, _)
\* the origins of SubFrom's result: what replaces a match descends from the
\* match's first character
SubOriginFrom(text, orig, i, key, parts) ==
    IF i > Len(text) THEN <<>>
    ELSE LET e == MatchEnd(text, i, key) IN
         IF e > 0
         THEN [k \in 1..Len(Expand(parts, SubSeq(text, i, e))) |-> orig[i]]
              \o SubOriginFrom(text, orig, e + 1, key, parts)
         ELSE <<orig[i]>> \o SubOriginFrom(text, orig, i + 1, key, parts)

RECURSIVE ReplaceOriginFrom(_, _, _, _, _)
\* the origins of ReplaceFrom's result
ReplaceOriginFrom(text, orig, i, old, new) ==
    IF i > Len(text) THEN <<>>
    ELSE IF StartsWithAt(text, i, old)
         THEN [k \in 1..Len(new) |-> orig[i]]
              \o ReplaceOriginFrom(text, orig, i + Len(old), old, new)
         ELSE <<orig[i]>> \o ReplaceOriginFrom(text, orig, i + 1, old, new)

RECURSIVE ByLengthDown(_, _)
\* the keys of length n, then those of length n - 1, ..., each in the given order
ByLengthDown(keys, n) ==
    IF n < 0 THEN <<>>
    ELSE SelectSeq(keys, LAMBDA k : Len(k) = n) \o ByLengthDown(keys, n - 1)

MaxOf(S) == IF S = {} THEN 0 ELSE CHOOSE n \in S : \A m \in S : m <= n

\* sorted(mappings.keys(), key=len, reverse=True): stable
SortedKeys(table) ==
    LET keys == [j \in 1..Len(table) |-> table[j][1]]
    IN  ByLengthDown(keys, MaxOf({ Len(keys[j]) : j \in 1..Len(keys) }))

\* mappings[key]
Lookup(table, key) == table[IndexOfKey(table, key)][2]

\* replacement_string for a key
ReplacementString(table, key) ==
    GT \o SanitizeStringForSvg(Lookup(table, key)) \o LT

\* replace_fields up to the loop: the two fixed tokens, then the keys are sorted
ReplaceTokens ==
    /\ pc = "replace_fields"
    /\ LET template_name == TemplateNameOf(xml_filename)
           named == Replace(raw_data, TEMPLATE_NAME, template_name)
           named_origin == ReplaceOriginFrom(raw_data, origin, 1, TEMPLATE_NAME, template_name)
       IN  /\ raw_data' = Replace(named, CURRENT_DATE, current_date)
           /\ origin' = ReplaceOriginFrom(named, named_origin, 1, CURRENT_DATE, current_date)
    /\ replacements_made' = 0
    /\ sorted_keys' = SortedKeys(mappings.table)
    /\ key_index' = 1
    /\ pc' = "replace_keys"
    /\ UNCHANGED <<argc, parseVars, mappings, inputVars, sanVars, pdfVars,
                   history, error_seen, exit_status>>

\* one turn of the loop over sorted_keys; a replacement string re cannot read
\* raises re.error out of replace_fields
ReplaceKey ==
    /\ pc = "replace_keys"
    /\ key_index <= Len(sorted_keys)
    /\ LET key == sorted_keys[key_index]
           read == ParseTemplate(ReplacementString(mappings.table, key))
       IN  IF ~HasMatch(raw_data, key)
           THEN /\ key_index' = key_index + 1
                /\ UNCHANGED <<pc, raw_data, origin, replacements_made>>
           ELSE IF read.ok
           THEN /\ raw_data' = SubFrom(raw_data, 1, key, read.parts)
                /\ origin' = SubOriginFrom(raw_data, origin, 1, key, read.parts)
                /\ replacements_made' = replacements_made + 1
                /\ key_index' = key_index + 1
                /\ pc' = pc
           ELSE /\ pc' = "except"
                /\ UNCHANGED <<raw_data, origin, replacements_made, key_index>>
    /\ UNCHANGED <<argc, parseVars, mappings, inputVars, sorted_keys, sanVars, pdfVars,
                   history, error_seen, exit_status>>

\* the end of the loop: the summary is logged and replace_fields returns
ReplaceFieldsReturn ==
    /\ pc = "replace_keys"
    /\ key_index > Len(sorted_keys)
    /\ pc' = "save_pdf"
    /\ UNCHANGED <<argc, parseVars, mappings, inputVars, renderVars, sanVars, pdfVars,
                   history, error_seen, exit_status>>

-----------------------------------------------------------------------------
(* replace_fields on every bounded template and mapping table                 *)

\* the most pieces a template is made of
MaxPieces == 2

TemplatePieces ==
    { <<">", "B", "1", "<">>,
      <<">", "B", "1", "0", "<">>,
      <<">", " ", "b", "1", "\n", "<">>,
      <<">">> \o TEMPLATE_NAME \o <<"<">>,
      CURRENT_DATE,
      <<"B", "1">> }

Templates == TextsOf(TemplatePieces, MaxPieces)

MappingKeys == { <<"B", "1">>, <<"B", "1", "0">> }

MappingValues ==
    { <<"x">>, <<"y">>, <<"b", "1">>, <<"<">>, <<BACKSLASH, "n">>, <<BACKSLASH, "d">> }

\* every ordered dict over the keys: none, one, or both in either order
MappingTables ==
    {<<>>}
    \cup { << <<k, v>> >> : k \in MappingKeys, v \in MappingValues }
    \cup { << <<ks[1], v1>>, <<ks[2], v2>> >> :
             ks \in { x \in MappingKeys \X MappingKeys : x[1] # x[2] },
             v1 \in MappingValues, v2 \in MappingValues }

Filenames ==
    { <<"c", "f", "g", "/", "B", "1", ".", "x", "m", "l">>,
      CURRENT_DATE \o <<".", "x", "m", "l">> }

Dates == { <<"0", "6", "/", "1", "1", "/", "2", "0", "2", "6">> }

Identity(text) == [i \in 1..Len(text) |-> i]

InitRender ==
    /\ pc = "replace_fields"
    /\ template \in Templates
    /\ mappings \in { Some(t) : t \in MappingTables }
    /\ xml_filename \in Filenames
    /\ current_date \in Dates
    /\ raw_data = template
    /\ origin = Identity(template)
    /\ sorted_keys = <<>> /\ key_index = 0 /\ replacements_made = 0
    /\ xml_state = "ok" /\ doc = <<>> /\ svg_exists = TRUE
    /\ IdleSanitize /\ IdlePdf /\ IdleMain

NextRender == ReplaceTokens \/ ReplaceKey \/ ReplaceFieldsReturn

SpecRender == InitRender /\ [][NextRender]_vars

-----------------------------------------------------------------------------
(* Properties of replace_fields                                               *)

\* what raw_data now reads where the template had positions p..q
SpanText(p, q) ==
    LET at == SelectSeq([i \in 1..Len(raw_data) |-> i], LAMBDA i : origin[i] \in p..q)
    IN  [k \in 1..Len(at) |-> raw_data[at[k]]]

TableIs(table, pairs) ==
    /\ Len(table) = Cardinality(pairs)
    /\ { table[j] : j \in 1..Len(table) } = pairs

B1 == <<"B", "1">>
B10 == <<"B", "1", "0">>

\* C2: with mappings {B1: "x", B10: "y"}, after replace_fields a span of the
\* template that read >B10< reads >y< and one that read >B1< reads >x<
C2_LongerKeyNotHijacked ==
    (pc = "save_pdf" /\ TableIs(mappings.table, { <<B1, <<"x">>>>, <<B10, <<"y">>>> })) =>
        \A p \in 1..Len(template) :
            /\ StartsWithAt(template, p, GT \o B10 \o LT) =>
                 SpanText(p, p + Len(B10) + 1) = <<">", "y", "<">>
            /\ StartsWithAt(template, p, GT \o B1 \o LT) =>
                 SpanText(p, p + Len(B1) + 1) = <<">", "x", "<">>

\* the template >B1<>B10< has been rendered with {B1: "x", B10: "y"}
C2_Witness ==
    /\ pc = "save_pdf"
    /\ TableIs(mappings.table, { <<B1, <<"x">>>>, <<B10, <<"y">>>> })
    /\ template = GT \o B1 \o LT \o GT \o B10 \o LT
    /\ raw_data = <<">", "x", "<", ">", "y", "<">>

\* C3: a turn of the loop whose key matches replaces every match by > + the
\* sanitized value + <, character for character, and counts the key; a turn
\* whose key matches nothing leaves the text and goes on to the next key
C3_EveryMatchReplacedLiterally ==
    [][ (pc = "replace_keys" /\ key_index <= Len(sorted_keys)) =>
          LET key == sorted_keys[key_index]
              repl == GT \o SanitizeStringForSvg(Lookup(mappings.table, key)) \o LT
          IN  IF HasMatch(raw_data, key)
              THEN /\ raw_data' = SubFrom(raw_data, 1, key, LiteralParts(repl))
                   /\ replacements_made' = replacements_made + 1
              ELSE /\ raw_data' = raw_data
                   /\ key_index' = key_index + 1
                   /\ pc' = "replace_keys" ]_vars

RECURSIVE BothTokensReplacedFrom(_, _, _, _)
\* text from position i on with each occurrence of the two fixed tokens replaced
\* and every other character kept
BothTokensReplacedFrom(text, i, name, date) ==
    IF i > Len(text) THEN <<>>
    ELSE IF StartsWithAt(text, i, TEMPLATE_NAME)
    THEN name \o BothTokensReplacedFrom(text, i + Len(TEMPLATE_NAME), name, date)
    ELSE IF StartsWithAt(text, i, CURRENT_DATE)
    THEN date \o BothTokensReplacedFrom(text, i + Len(CURRENT_DATE), name, date)
    ELSE <<text[i]>> \o BothTokensReplacedFrom(text, i + 1, name, date)

\* C9: with an empty mapping table replace_fields changes only the occurrences
\* of TEMPLATE_NAME and CURRENT_DATE, into the base filename without extension
\* and the date, and leaves every other character of the template as it was
C9_EmptyTableChangesOnlyTokens ==
    (pc = "save_pdf" /\ mappings.table = <<>>) =>
        raw_data = BothTokensReplacedFrom(template, 1, TemplateNameOf(xml_filename),
                                          current_date)

\* the spans <<p, q>> of the template that are placeholders of key
PlaceholderSpans(key) ==
    { <<p, MatchEnd(template, p, key)>> :
        p \in { x \in 1..Len(template) : MatchEnd(template, x, key) > 0 } }

\* C10: substitutions do not chain: after replace_fields every span of the
\* template that was a placeholder of key K reads > + the sanitized value of
\* K + <, and every TEMPLATE_NAME of the template reads the template name,
\* whatever keys were processed later (stated for values without a backslash
\* and a file name without CURRENT_DATE)
C10_NoChaining ==
    (/\ pc = "save_pdf"
     /\ \A j \in 1..Len(mappings.table) : ~Contains(mappings.table[j][2], <<BACKSLASH>>)
     /\ ~Contains(xml_filename, CURRENT_DATE)) =>
        /\ \A j \in 1..Len(mappings.table) :
             \A s \in PlaceholderSpans(mappings.table[j][1]) :
                 SpanText(s[1], s[2])
                   = GT \o SanitizeStringForSvg(mappings.table[j][2]) \o LT
        /\ \A p \in 1..Len(template) :
             StartsWithAt(template, p, TEMPLATE_NAME) =>
                 SpanText(p, p + Len(TEMPLATE_NAME) - 1) = TemplateNameOf(xml_filename)

-----------------------------------------------------------------------------
(* SvgTemplate.save_pdf                                                       *)

\* self._get_driver(), before the try block: a failure to launch raises out of
\* save_pdf with nothing to clean up
GetDriver ==
    /\ pc = "save_pdf"
    /\ \E ok \in BOOLEAN :
         IF ok
         THEN /\ driver' = "running"
              /\ history' = history \cup {"browser_launched"}
              /\ pc' = "write_temp"
         ELSE /\ pc' = "except"
              /\ UNCHANGED <<driver, history>>
    /\ UNCHANGED <<argc, parseVars, mappings, inputVars, renderVars, sanVars,
                   quit_called, temp_exists, temp_svg_path, pending, error_seen,
                   exit_status>>

\* temp_svg_path is set and the text written to it; when that fails the file
\* exists if it was created before the failure
WriteTemp ==
    /\ pc = "write_temp"
    /\ temp_svg_path' = TRUE
    /\ \E ok \in BOOLEAN :
         IF ok
         THEN /\ temp_exists' = TRUE
              /\ history' = history \cup {"temp_created"}
              /\ pc' = "load"
              /\ UNCHANGED pending
         ELSE /\ temp_exists' \in {temp_exists, TRUE}
              /\ history' = IF temp_exists' /\ ~temp_exists
                            THEN history \cup {"temp_created"} ELSE history
              /\ pending' = TRUE
              /\ pc' = "finally"
    /\ UNCHANGED <<argc, parseVars, mappings, inputVars, renderVars, sanVars,
                   driver, quit_called, error_seen, exit_status>>

\* a step of the try block that writes nothing: driver.get, the dimensions
\* script with its check, and Page.printToPDF with the decoding of its data
BrowserStep(from, to) ==
    /\ pc = from
    /\ \E ok \in BOOLEAN :
         IF ok
         THEN pc' = to /\ UNCHANGED pending
         ELSE pc' = "finally" /\ pending' = TRUE
    /\ UNCHANGED <<argc, parseVars, mappings, inputVars, renderVars, sanVars,
                   driver, quit_called, temp_exists, temp_svg_path, history,
                   error_seen, exit_status>>

LoadPage == BrowserStep("load", "dimensions")

GetDimensions == BrowserStep("dimensions", "print")

PrintToPdf == BrowserStep("print", "write_pdf")

\* the PDF is written to output_path
WritePdf ==
    /\ pc = "write_pdf"
    /\ \E ok \in BOOLEAN :
         IF ok
         THEN /\ history' = history \cup {"output_written"}
              /\ UNCHANGED pending
         ELSE /\ pending' = TRUE
              /\ UNCHANGED history
    /\ pc' = "finally"
    /\ UNCHANGED <<argc, parseVars, mappings, inputVars, renderVars, sanVars,
                   driver, quit_called, temp_exists, temp_svg_path,
                   error_seen, exit_status>>

\* the finally block's driver.quit(): when it raises, the rest of the block is
\* skipped and its exception leaves save_pdf
QuitDriver ==
    /\ pc = "finally"
    /\ quit_called' = TRUE
    /\ \E ok \in BOOLEAN :
         IF ok
         THEN driver' = "quit" /\ pc' = "remove_temp"
         ELSE driver' \in {driver, "quit"} /\ pc' = "except"
    /\ UNCHANGED <<argc, parseVars, mappings, inputVars, renderVars, sanVars,
                   temp_exists, temp_svg_path, pending, history, error_seen,
                   exit_status>>

\* the finally block's removal of the temporary file; then save_pdf returns, or
\* raises what the try block raised
RemoveTemp ==
    /\ pc = "remove_temp"
    /\ temp_exists' = IF temp_svg_path /\ temp_exists THEN FALSE ELSE temp_exists
    /\ pc' = IF pending THEN "except" ELSE "return"
    /\ UNCHANGED <<argc, parseVars, mappings, inputVars, renderVars, sanVars,
                   driver, quit_called, temp_svg_path, pending, history,
                   error_seen, exit_status>>

-----------------------------------------------------------------------------
(* main                                                                       *)

\* the check of len(sys.argv)
CheckArgs ==
    /\ pc = "main"
    /\ IF argc \in {3, 4}
       THEN pc' = "paths" /\ UNCHANGED exit_status
       ELSE pc' = "exited" /\ exit_status' = 1
    /\ UNCHANGED <<argc, parseVars, mappings, inputVars, renderVars, sanVars, pdfVars,
                   history, error_seen>>

\* the paths; with an output directory given it is created, and a failure to
\* create it is not caught
PreparePaths ==
    /\ pc = "paths"
    /\ \E ok \in BOOLEAN :
         IF argc = 4 /\ ~ok
         THEN pc' = "exited" /\ exit_status' = 1 /\ UNCHANGED history
         ELSE /\ pc' = "parse"
              /\ history' = IF argc = 4 THEN history \cup {"output_dir"} ELSE history
              /\ UNCHANGED exit_status
    /\ UNCHANGED <<argc, parseVars, mappings, inputVars, renderVars, sanVars, pdfVars,
                   error_seen>>

\* if mappings is not None
CheckMappings ==
    /\ pc = "parsed"
    /\ pc' = IF mappings.is_none THEN "return" ELSE "read_template"
    /\ UNCHANGED <<argc, parseVars, mappings, inputVars, renderVars, sanVars, pdfVars,
                   history, error_seen, exit_status>>

\* SvgTemplate(svg_file): the template is read, or FileNotFoundError is raised
ReadTemplate ==
    /\ pc = "read_template"
    /\ IF svg_exists
       THEN /\ raw_data' = template
            /\ origin' = Identity(template)
            /\ history' = history \cup {"template_read"}
            /\ pc' = "replace_fields"
       ELSE /\ pc' = "except"
            /\ UNCHANGED <<raw_data, origin, history>>
    /\ UNCHANGED <<argc, parseVars, mappings, inputVars, sorted_keys, key_index,
                   replacements_made, sanVars, pdfVars, error_seen, exit_status>>

\* the except clauses of main: the error is logged
HandleException ==
    /\ pc = "except"
    /\ error_seen' = TRUE
    /\ pc' = "return"
    /\ UNCHANGED <<argc, parseVars, mappings, inputVars, renderVars, sanVars, pdfVars,
                   history, exit_status>>

\* main returns and the interpreter exits
Return ==
    /\ pc = "return"
    /\ exit_status' = 0
    /\ pc' = "exited"
    /\ UNCHANGED <<argc, parseVars, mappings, inputVars, renderVars, sanVars, pdfVars,
                   history, error_seen>>

\* the description B1|x|B10|y, an element without description, the description
\* B1|\d
MainDocs ==
    { << ElementOf(<<B1, <<"x">>, B10, <<"y">>>>) >>,
      << ElementOf(<<>>) >>,
      << ElementOf(<<>>), ElementOf(<<B1, <<BACKSLASH, "d">>>>) >> }

MainTemplates == { GT \o B1 \o LT \o GT \o B10 \o LT, TEMPLATE_NAME }

Init ==
    /\ pc = "main"
    /\ argc \in 1..5
    /\ xml_state \in {"ok", "missing", "malformed"}
    /\ doc \in MainDocs
    /\ mappings = None
    /\ svg_exists \in BOOLEAN
    /\ template \in MainTemplates
    /\ xml_filename \in Filenames
    /\ current_date \in Dates
    /\ temp_exists = FALSE
    /\ driver = "none" /\ quit_called = FALSE /\ temp_svg_path = FALSE /\ pending = FALSE
    /\ history = {} /\ error_seen = FALSE /\ exit_status = -1
    /\ IdleRender /\ IdleSanitize

Next ==
    \/ CheckArgs \/ PreparePaths \/ Parse \/ CheckMappings \/ ReadTemplate
    \/ ReplaceTokens \/ ReplaceKey \/ ReplaceFieldsReturn
    \/ GetDriver \/ WriteTemp \/ LoadPage \/ GetDimensions \/ PrintToPdf \/ WritePdf
    \/ QuitDriver \/ RemoveTemp
    \/ HandleException \/ Return

Spec == Init /\ [][Next]_vars

-----------------------------------------------------------------------------
(* Properties of main and save_pdf                                            *)

\* the run met a condition the program treats as fatal
FatalError == argc \notin {3, 4} \/ error_seen

\* C6: a run that lacked its arguments or met a fatal error exits with a
\* non-zero status
C6_NonZeroExitOnError ==
    (pc = "exited" /\ FatalError) => exit_status # 0

\* save_pdf has returned or raised
SavePdfLeft == pc \in {"except", "return", "exited"}

\* C7: once the browser has been launched, when save_pdf returns or raises
\* the browser has been asked to quit and the temporary file does not exist
C7_CleanupOnEveryExit ==
    (SavePdfLeft /\ "browser_launched" \in history) =>
        (quit_called /\ ~temp_exists)

\* C8: when the input document is missing or malformed the mapping is None, and
\* from then on the template is not read, the browser not launched, no temporary
\* file created and no output written
C8_ExtractionFailureHalts ==
    (xml_state # "ok" /\ pc \notin {"main", "paths", "parse"}) =>
        /\ mappings = None
        /\ history \cap {"template_read", "browser_launched", "temp_created",
                         "output_written"} = {}

\* a run on a malformed document has parsed, logged the error and exited
C8_Witness ==
    /\ xml_state = "malformed"
    /\ argc = 3
    /\ error_seen
    /\ mappings = None
    /\ pc = "exited"

====
